---- MODULE Spec2Model ----
(***************************************************************************)
(* Model of gelafin/network-utilization-calculator.                        *)
(*                                                                         *)
(*   TransmissionTimeStatisticalMultiplexingCalculator.py                  *)
(*       calculate_transmission_time_statistical_multiplexing, run step    *)
(*       by step (needed packets, one heappush per file, the first file,   *)
(*       one loop iteration per further file, return).                     *)
(*   NetworkUtilizationCalculator.py                                       *)
(*       calculate_transmission_time and calculate_network_utilization,    *)
(*       called in the order main() calls them.                            *)
(*                                                                         *)
(* Python numbers are modelled as exact rationals [num, den] in lowest     *)
(* terms with den > 0; a turn order is the 0-based index of the source.    *)
(***************************************************************************)
EXTENDS Integers, Sequences, FiniteSets, TLC

VARIABLES
    prog,                              \* which script runs: "mux" or "util"
    pc,                                \* position in the running function
    known_data,                        \* the known_data dict of the running script
    window_size,                       \* <<>> is None, <<w>> is a window of w bytes
    needed_packets,                    \* line 57
    file_order_indices_by_needed_packets_asc,   \* line 63, the heapq list
    total_packets_at_file_done,        \* lines 73 and 92 (latest value)
    total_packets_at_each_file_done,   \* line 74
    times_at_each_packet_done_seconds, \* lines 81 and 103
    result,                            \* the list returned at line 105
    transmission_time_in_ms,           \* main() line 82
    utilization                        \* value returned at line 60

vars == <<prog, pc, known_data, window_size, needed_packets,
          file_order_indices_by_needed_packets_asc, total_packets_at_file_done,
          total_packets_at_each_file_done, times_at_each_packet_done_seconds,
          result, transmission_time_in_ms, utilization>>

muxVars == <<needed_packets, file_order_indices_by_needed_packets_asc,
             total_packets_at_file_done, total_packets_at_each_file_done,
             times_at_each_packet_done_seconds, result>>

utilVars == <<transmission_time_in_ms, utilization>>

-----------------------------------------------------------------------------
(* Bounds of the enumerated inputs *)

MaxFiles == 3
MaxFileSize == 4
MaxPayload == 2
MaxCount == 3
MaxLength == 3
MaxRate == 2
MaxRtt == 2
MaxWindow == 3

-----------------------------------------------------------------------------
(* Exact arithmetic standing for Python's number arithmetic *)

Abs(x) == IF x < 0 THEN -x ELSE x

RECURSIVE GCD(_, _)
GCD(a, b) == IF b = 0 THEN a ELSE GCD(b, a % b)

\* the rational n/d in lowest terms, d # 0
Rat(n, d) ==
    LET g == GCD(Abs(n), Abs(d))
        s == IF d < 0 THEN -1 ELSE 1
    IN  [num |-> s * (n \div g), den |-> s * (d \div g)]

FromInt(n) == [num |-> n, den |-> 1]

\* x * y
RatMul(x, y) ==
    LET g1 == GCD(Abs(x.num), y.den)
        g2 == GCD(Abs(y.num), x.den)
    IN  IF x.num = 0 \/ y.num = 0 THEN FromInt(0)
        ELSE [num |-> (x.num \div g1) * (y.num \div g2),
              den |-> (x.den \div g2) * (y.den \div g1)]

\* x / y, y # 0
RatDiv(x, y) ==
    RatMul(x, IF y.num < 0 THEN [num |-> -y.den, den |-> -y.num]
                           ELSE [num |-> y.den, den |-> y.num])

\* x + y
RatAdd(x, y) ==
    LET g == GCD(x.den, y.den)
    IN  Rat(x.num * (y.den \div g) + y.num * (x.den \div g), (x.den \div g) * y.den)

\* a quotient always rounded to one more than its floor
CeilDivPlusOne(a, b) == (a \div b) + 1

\* math.ceil of the quotient a / b of non-negative a and positive b
ceil(a, b) == IF a % b = 0 THEN a \div b ELSE (a \div b) + 1

\* (a, b) < (c, d) on Python tuples
TupleLess(s, t) == s[1] < t[1] \/ (s[1] = t[1] /\ s[2] < t[2])

-----------------------------------------------------------------------------
(* heapq.heappush: append the item, then sift it up towards the root.       *)
(* Heap positions are the 0-based positions of the Python list; position p  *)
(* is element p + 1 of the sequence.                                        *)

RECURSIVE siftdown(_, _, _)
siftdown(heap, newitem, pos) ==
    IF pos > 0 /\ TupleLess(newitem, heap[((pos - 1) \div 2) + 1])
    THEN siftdown([heap EXCEPT ![pos + 1] = heap[((pos - 1) \div 2) + 1]],
                  newitem, (pos - 1) \div 2)
    ELSE [heap EXCEPT ![pos + 1] = newitem]

\* the item appended without sifting
HeapAppendOnly(heap, item) == Append(heap, item)

heappush(heap, item) == siftdown(Append(heap, item), item, Len(heap))

-----------------------------------------------------------------------------
(* TransmissionTimeStatisticalMultiplexingCalculator.py *)

kibs_to_bytes(kibs) == kibs * 1024

mibs_to_bytes(mibs) == mibs * 1024 * 1024

\* the known_data of the __main__ block
MuxMainData ==
    [total_link_rate_Mbps |-> Rat(52, 10),
     sharing_computers_count |-> 2,
     starting_time_seconds |-> 0,
     file_sizes_bytes |-> <<mibs_to_bytes(3), kibs_to_bytes(165)>>,
     packet_payload_size_bytes |-> 1000,
     packet_header_size_bytes |-> 24]

FileSizeLists == UNION {[1..n -> 1..MaxFileSize] : n \in 1..MaxFiles}

MuxInputs ==
    [total_link_rate_Mbps : {FromInt(1)},
     sharing_computers_count : 1..MaxCount,
     starting_time_seconds : {0, 1},
     file_sizes_bytes : FileSizeLists,
     packet_payload_size_bytes : 1..MaxPayload,
     packet_header_size_bytes : {0, 1}]
    \cup {MuxMainData}

total_link_rate_bps == RatMul(known_data.total_link_rate_Mbps, FromInt(1000 * 1000))

total_packet_size_bits ==
    (known_data.packet_header_size_bytes + known_data.packet_payload_size_bytes) * 8

\* lines 75-80 and 95-100
time_when_file_done_seconds(total_packets) ==
    RatAdd(RatDiv(FromInt(total_packets * total_packet_size_bits), total_link_rate_bps),
           FromInt(known_data.starting_time_seconds))

\* line 57
NeededPackets(file_sizes_bytes, packet_payload_size_bytes) ==
    [i \in 1..Len(file_sizes_bytes) |-> ceil(file_sizes_bytes[i], packet_payload_size_bytes)]

\* one sender too few counted as still sending
PacketsToFinishNoDropout(remaining, sharing_computers_count, index) ==
    remaining * (sharing_computers_count - index - 1)

\* line 91, the packets all still-sending computers send until this file is done
PacketsToFinish(remaining, sharing_computers_count, index) ==
    remaining * (sharing_computers_count - index)

ComputeNeededPackets ==
    /\ prog = "mux" /\ pc = "start"
    /\ needed_packets' = NeededPackets(known_data.file_sizes_bytes,
                                       known_data.packet_payload_size_bytes)
    /\ pc' = "push"
    /\ UNCHANGED <<prog, known_data, window_size, utilVars,
                   file_order_indices_by_needed_packets_asc, total_packets_at_file_done,
                   total_packets_at_each_file_done, times_at_each_packet_done_seconds,
                   result>>

\* one iteration of the loop of lines 64-65
PushFileOrder ==
    /\ prog = "mux" /\ pc = "push"
    /\ Len(file_order_indices_by_needed_packets_asc) < Len(needed_packets)
    /\ LET turn_order == Len(file_order_indices_by_needed_packets_asc)
           packet_count == needed_packets[turn_order + 1]
       IN  file_order_indices_by_needed_packets_asc' =
               heappush(file_order_indices_by_needed_packets_asc,
                        <<packet_count, turn_order>>)
    /\ UNCHANGED <<prog, pc, known_data, window_size, utilVars, needed_packets,
                   total_packets_at_file_done, total_packets_at_each_file_done,
                   times_at_each_packet_done_seconds, result>>

\* lines 71-81
FirstFileDone ==
    /\ prog = "mux" /\ pc = "push"
    /\ Len(file_order_indices_by_needed_packets_asc) = Len(needed_packets)
    /\ LET packet_count == file_order_indices_by_needed_packets_asc[1][1]
           turn_order == file_order_indices_by_needed_packets_asc[1][2]
           total == packet_count * known_data.sharing_computers_count
       IN  /\ total_packets_at_file_done' = total
           /\ total_packets_at_each_file_done' = <<total>>
           /\ times_at_each_packet_done_seconds' =
                  <<<<time_when_file_done_seconds(total), turn_order>>>>
    /\ pc' = "loop"
    /\ UNCHANGED <<prog, known_data, window_size, utilVars, needed_packets,
                   file_order_indices_by_needed_packets_asc, result>>

\* one iteration of the loop of lines 82-103; the value of index is the
\* number of entries appended so far
NextFileDone ==
    /\ prog = "mux" /\ pc = "loop"
    /\ Len(times_at_each_packet_done_seconds) < Len(file_order_indices_by_needed_packets_asc)
    /\ LET index == Len(times_at_each_packet_done_seconds)
           size_and_order == file_order_indices_by_needed_packets_asc[index + 1]
           total_packets_needed_this_file == size_and_order[1]
           turn_order == size_and_order[2]
       IN  IF index - 1 >= Len(total_packets_at_each_file_done)
           THEN \* line 87 raises IndexError
                /\ pc' = "IndexError"
                /\ UNCHANGED <<total_packets_at_file_done,
                               times_at_each_packet_done_seconds>>
           ELSE LET total_packets_at_previous_done == total_packets_at_each_file_done[index]
                    remaining == total_packets_needed_this_file
                                     - total_packets_at_previous_done
                    total == PacketsToFinish(remaining, known_data.sharing_computers_count,
                                             index)
                                 + total_packets_at_previous_done
                IN  /\ total_packets_at_file_done' = total
                    /\ times_at_each_packet_done_seconds' =
                           Append(times_at_each_packet_done_seconds,
                                  <<time_when_file_done_seconds(total), turn_order>>)
                    /\ pc' = "loop"
    /\ UNCHANGED <<prog, known_data, window_size, utilVars, needed_packets,
                   file_order_indices_by_needed_packets_asc,
                   total_packets_at_each_file_done, result>>

\* line 105
ReturnTimes ==
    /\ prog = "mux" /\ pc = "loop"
    /\ Len(times_at_each_packet_done_seconds) = Len(file_order_indices_by_needed_packets_asc)
    /\ result' = times_at_each_packet_done_seconds
    /\ pc' = "done"
    /\ UNCHANGED <<prog, known_data, window_size, utilVars, needed_packets,
                   file_order_indices_by_needed_packets_asc, total_packets_at_file_done,
                   total_packets_at_each_file_done, times_at_each_packet_done_seconds>>

-----------------------------------------------------------------------------
(* NetworkUtilizationCalculator.py *)

\* the known_data and window_size_in_bytes of main()
UtilMainData == [length_in_bytes |-> 1000, rate_in_Mbps |-> 1000, rtt_in_ms |-> 15 * 2]

UtilMainWindow == 5020

UtilInputs ==
    [length_in_bytes : 0..MaxLength, rate_in_Mbps : 1..MaxRate, rtt_in_ms : 0..MaxRtt]
    \cup {UtilMainData}

WindowSizes(data) ==
    IF data = UtilMainData
    THEN {<<>>, <<UtilMainWindow>>}
    ELSE {<<>>} \cup {<<w>> : w \in 0..MaxWindow}

\* a local that has not been assigned yet
Unbound == [num |-> 0, den |-> 0]

\* the transmission time left in seconds
TransmissionTimeSeconds(length_in_bytes, rate_in_Mbps) ==
    RatDiv(FromInt(length_in_bytes * 8), FromInt(rate_in_Mbps * (1000 * 1000)))

\* lines 4-24
calculate_transmission_time(length_in_bytes, rate_in_Mbps) ==
    LET packet_length == length_in_bytes * 8
        rate == rate_in_Mbps * (1000 * 1000)
        transmission_time == RatDiv(FromInt(packet_length), FromInt(rate))
    IN  RatMul(transmission_time, FromInt(1000))

\* a window rounded down to whole packets
WholePipelinedPackets(window, packet_length) ==
    IF window = <<>> THEN FromInt(1) ELSE FromInt(window[1] \div packet_length)

\* lines 53-55
pipelined_packet_count(window, packet_length) ==
    IF window = <<>> THEN FromInt(1) ELSE Rat(window[1], packet_length)

\* main() line 82
CallTransmissionTime ==
    /\ prog = "util" /\ pc = "start"
    /\ transmission_time_in_ms' =
           calculate_transmission_time(known_data.length_in_bytes, known_data.rate_in_Mbps)
    /\ pc' = "utilization"
    /\ UNCHANGED <<prog, known_data, window_size, muxVars, utilization>>

\* main() line 86: calculate_network_utilization(known_data, window_size), lines 27-60
CallNetworkUtilization ==
    /\ prog = "util" /\ pc = "utilization"
    /\ LET packet_length == known_data.length_in_bytes
           rate == known_data.rate_in_Mbps
           rtt == FromInt(known_data.rtt_in_ms)
           transmission_time == calculate_transmission_time(packet_length, rate)
           total_time == RatAdd(transmission_time, rtt)
       IN  IF total_time.num = 0 \/ (window_size # <<>> /\ packet_length = 0)
           THEN \* the division of line 50 or of line 55 raises
                /\ pc' = "ZeroDivisionError"
                /\ UNCHANGED utilization
           ELSE /\ utilization' =
                       RatMul(RatDiv(transmission_time, total_time),
                              pipelined_packet_count(window_size, packet_length))
                /\ pc' = "done"
    /\ UNCHANGED <<prog, known_data, window_size, muxVars, transmission_time_in_ms>>

-----------------------------------------------------------------------------
(* The two scripts *)

Init ==
    /\ prog \in {"mux", "util"}
    /\ pc = "start"
    /\ known_data \in IF prog = "mux" THEN MuxInputs ELSE UtilInputs
    /\ window_size \in IF prog = "mux" THEN {<<>>} ELSE WindowSizes(known_data)
    /\ needed_packets = <<>>
    /\ file_order_indices_by_needed_packets_asc = <<>>
    /\ total_packets_at_file_done = 0
    /\ total_packets_at_each_file_done = <<>>
    /\ times_at_each_packet_done_seconds = <<>>
    /\ result = <<>>
    /\ transmission_time_in_ms = Unbound
    /\ utilization = Unbound

Next ==
    \/ ComputeNeededPackets
    \/ PushFileOrder
    \/ FirstFileDone
    \/ NextFileDone
    \/ ReturnTimes
    \/ CallTransmissionTime
    \/ CallNetworkUtilization

Spec == Init /\ [][Next]_vars

-----------------------------------------------------------------------------
(* Properties of calculate_transmission_time_statistical_multiplexing *)

MatchingCount ==
    known_data.sharing_computers_count = Len(known_data.file_sizes_bytes)

\* x <= y and x < y on rationals, over the least common denominator
RatLeq(x, y) ==
    LET g == GCD(x.den, y.den)
    IN  x.num * (y.den \div g) <= y.num * (x.den \div g)

RatLess(x, y) ==
    LET g == GCD(x.den, y.den)
    IN  x.num * (y.den \div g) < y.num * (x.den \div g)

\* needed packet count of the sender with the given 0-based turn order
NeededOf(turn_order) == needed_packets[turn_order + 1]

\* Cycle-by-cycle round robin: in cycle c every sender that still has packets
\* left (needs at least c packets) sends one packet and a finished sender
\* sends none. RoundRobinPacketsSent(c) is the number of packets on the link
\* by the end of cycle c.
PacketsInCycle(cycle) ==
    Cardinality({i \in DOMAIN needed_packets : needed_packets[i] >= cycle})

\* packets sent in the cycles first..last, one cycle at a time
RECURSIVE PacketsInCycles(_, _)
PacketsInCycles(first, last) ==
    IF first > last THEN 0
    ELSE IF first = last THEN PacketsInCycle(first)
    ELSE LET mid == (first + last) \div 2
         IN  PacketsInCycles(first, mid) + PacketsInCycles(mid + 1, last)

RoundRobinPacketsSent(cycle) == PacketsInCycles(1, cycle)

\* C1: with sharing_computers_count = len(file_sizes_bytes), the completion
\* times of the returned list never decrease from one entry to the next.
C1_CompletionTimesNonDecreasing ==
    (prog = "mux" /\ pc = "done" /\ MatchingCount)
        => \A k \in 1..(Len(result) - 1) : RatLeq(result[k][1], result[k + 1][1])

\* C2: for any number of senders the function returns, and the sequence it
\* processes and returns is in ascending order of needed packet count.
C2_AscendingNeededPackets ==
    prog = "mux" =>
        /\ pc # "IndexError"
        /\ pc \in {"loop", "done"} =>
               \A k \in 1..(Len(file_order_indices_by_needed_packets_asc) - 1) :
                   file_order_indices_by_needed_packets_asc[k][1]
                       <= file_order_indices_by_needed_packets_asc[k + 1][1]
        /\ pc = "done" =>
               \A k \in 1..(Len(result) - 1) :
                   NeededOf(result[k][2]) <= NeededOf(result[k + 1][2])

\* C3: two senders i < j that need the same number of packets are processed
\* and returned with turn order i before turn order j.
C3_TieBreakByTurnOrder ==
    prog = "mux" =>
        /\ pc # "IndexError"
        /\ pc \in {"loop", "done"} =>
               \A a, b \in 1..Len(file_order_indices_by_needed_packets_asc) :
                   (/\ file_order_indices_by_needed_packets_asc[a][1]
                           = file_order_indices_by_needed_packets_asc[b][1]
                    /\ file_order_indices_by_needed_packets_asc[a][2]
                           < file_order_indices_by_needed_packets_asc[b][2]) => a < b
        /\ pc = "done" =>
               \A a, b \in 1..Len(result) :
                   (/\ NeededOf(result[a][2]) = NeededOf(result[b][2])
                    /\ result[a][2] < result[b][2]) => a < b

\* C4: the total packet count at which a file is counted done equals the
\* packets a cycle-by-cycle round robin has sent by the end of the cycle in
\* which that file sends its last packet.
C4_ClosedFormIsRoundRobin ==
    (prog = "mux" /\ pc \in {"loop", "done"} /\ MatchingCount) =>
        LET latest == times_at_each_packet_done_seconds[
                          Len(times_at_each_packet_done_seconds)]
        IN  total_packets_at_file_done = RoundRobinPacketsSent(NeededOf(latest[2]))

\* C5: the __main__ scenario needs 3146 and 169 packets and returns two
\* pairs, turn order 1 first and 0 second, the first time strictly smaller.
C5_MainScenario ==
    (prog = "mux" /\ known_data = MuxMainData /\ pc = "done") =>
        /\ needed_packets = <<3146, 169>>
        /\ Len(result) = 2
        /\ result[1][2] = 1
        /\ result[2][2] = 0
        /\ RatLess(result[1][1], result[2][1])

C5_Witness == prog = "mux" /\ known_data = MuxMainData /\ pc = "done"

\* C6: the needed packet count of a file of size s with payload p is the
\* least n with n * p >= s, so s / p when p divides s.
C6_NeededPacketsIsCeiling ==
    (prog = "mux" /\ pc # "start") =>
        \A i \in 1..Len(known_data.file_sizes_bytes) :
            LET s == known_data.file_sizes_bytes[i]
                p == known_data.packet_payload_size_bytes
            IN  /\ needed_packets[i] * p >= s
                /\ (needed_packets[i] - 1) * p < s
                /\ s % p = 0 => needed_packets[i] * p = s

C6_Witness ==
    /\ prog = "mux" /\ pc = "push"
    /\ known_data.packet_payload_size_bytes > 1
    /\ \E i, j \in 1..Len(known_data.file_sizes_bytes) :
           /\ known_data.file_sizes_bytes[i] % known_data.packet_payload_size_bytes = 0
           /\ known_data.file_sizes_bytes[j] % known_data.packet_payload_size_bytes # 0

\* C9: for n file sizes the function returns n pairs whose turn orders are
\* exactly 0..n-1.
C9_ReturnsEveryTurnOrderOnce ==
    (prog = "mux" /\ pc \in {"done", "IndexError"}) =>
        /\ pc = "done"
        /\ Len(result) = Len(known_data.file_sizes_bytes)
        /\ {result[k][2] : k \in 1..Len(result)}
               = 0..(Len(known_data.file_sizes_bytes) - 1)

-----------------------------------------------------------------------------
(* Properties of NetworkUtilizationCalculator.py *)

\* C7: for positive length L the utilization is tt / (tt + rtt) without a
\* window and that value times the unrounded window_size / L with one
\* (5.02 for window 5020 and L = 1000), not clamped to 1.
C7_UtilizationFormula ==
    (prog = "util" /\ pc = "done" /\ known_data.length_in_bytes > 0) =>
        LET L == known_data.length_in_bytes
            tt == calculate_transmission_time(L, known_data.rate_in_Mbps)
            total == tt.num + known_data.rtt_in_ms * tt.den
        IN  /\ window_size = <<>> => utilization.num * total = utilization.den * tt.num
            /\ window_size # <<>> =>
                   utilization.num * total * L = utilization.den * tt.num * window_size[1]
            /\ (L = 1000 /\ window_size = <<5020>>) =>
                   utilization.num * total * 100 = utilization.den * tt.num * 502

C7_Witness ==
    /\ prog = "util" /\ pc = "done" /\ known_data.length_in_bytes > 0
    /\ window_size # <<>>
    /\ window_size[1] % known_data.length_in_bytes # 0
    /\ utilization.num > utilization.den

\* C8: calculate_transmission_time returns
\* (length_in_bytes * 8) / (rate_in_Mbps * 1000000) * 1000 milliseconds,
\* which is 0.008 for length 1000 at rate 1000. The equation num / den =
\* (L * 8) / (rate * 1000000) * 1000 is cross-multiplied and divided by 1000.
C8_TransmissionTimeMilliseconds ==
    (prog = "util" /\ pc # "start") =>
        /\ transmission_time_in_ms.den > 0
        /\ transmission_time_in_ms.num * known_data.rate_in_Mbps * (1000000 \div 1000)
               = known_data.length_in_bytes * 8 * transmission_time_in_ms.den
        /\ (known_data.length_in_bytes = 1000 /\ known_data.rate_in_Mbps = 1000) =>
               transmission_time_in_ms = [num |-> 8, den |-> 1000]
                   \/ transmission_time_in_ms = [num |-> 1, den |-> 125]

C8_Witness ==
    /\ prog = "util" /\ pc = "utilization"
    /\ known_data.length_in_bytes = 1000 /\ known_data.rate_in_Mbps = 1000

====
